---------------------------- MODULE Spec2Model ----------------------------
(***************************************************************************)
(* A model of demo/agent.py (class DemoAgent): readiness detection         *)
(* (detect_process), the admin HTTP client (admin_request), the webhook    *)
(* server (_receive_webhook / handle_webhook), process termination         *)
(* (_terminate / terminate) and the timing report (format_timing).         *)
(*                                                                         *)
(* Python values are tagged records: None is [tag |-> "None"], a str is    *)
(* [tag |-> "str", s |-> <<tokens>>] where the text is a sequence of       *)
(* tokens, so that substring search, truncation and JSON decoding are      *)
(* computed rather than assumed.                                           *)
(***************************************************************************)
EXTENDS Integers, Sequences, FiniteSets, TLC

VARIABLES
    \* ---- detect_process ----
    script,      \* what the admin endpoint answers to the 1st, 2nd, ... probe
    d_pc,        \* position in detect_process
    d_polls,     \* GET requests sent by detect_process so far
    d_text,      \* the local variable `text`
    d_error,     \* the message of the exception detect_process raised, or None
    \* ---- admin_request ----
    a_pc,        \* position of the admin call in progress
    a_call,      \* the call: entry point, method, path, data, text
    a_wire,      \* the HTTP requests sent for this call, in order
    a_resp,      \* the response received, or None
    a_result,    \* the value returned to the caller, NoReturn while there is none
    a_error,     \* the message of the exception raised to the caller, or None
    \* ---- the agent object ----
    webhook_port,    \* self.webhook_port
    webhook_site,    \* self.webhook_site: "None", "started" or "stopped"
    client_session,  \* self.client_session: "open" or "closed"
    proc,            \* self.proc: None or the spawned process
    handlers,        \* the topics a subclass defines a handle_<topic> coroutine for
    log,             \* the lines handed to log_msg, in order
    \* ---- the webhook server ----
    w_req,       \* the webhook requests: position, topic, body, calls, response
    w_count,     \* webhook requests received so far
    \* ---- terminate ----
    t_pc,        \* position in terminate / _terminate
    t_calls,     \* calls of terminate so far
    t_alive,     \* what `self.proc and self.proc.poll() is None` gave in this call
    t_signals,   \* calls of self.proc.terminate() made by this call
    t_waited,    \* what self.proc.wait did in this call: "no", "exited", "timeout"
    t_error,     \* the message of the exception this call raised, or None
    \* ---- format_timing ----
    timing,      \* the argument: the dicts count, total, avg, min, max
    f_pc,        \* position of the generator
    f_result,    \* the local list `result`
    f_out        \* the lines yielded so far

detectVars == <<script, d_pc, d_polls, d_text, d_error>>

adminVars == <<a_pc, a_call, a_wire, a_resp, a_result, a_error>>

agentVars == <<webhook_port, webhook_site, client_session, proc, handlers, log>>

webhookVars == <<w_req, w_count>>

terminateVars == <<t_pc, t_calls, t_alive, t_signals, t_waited, t_error>>

timingVars == <<timing, f_pc, f_result, f_out>>

vars == <<script, d_pc, d_polls, d_text, d_error,
          a_pc, a_call, a_wire, a_resp, a_result, a_error,
          webhook_port, webhook_site, client_session, proc, handlers, log,
          w_req, w_count,
          t_pc, t_calls, t_alive, t_signals, t_waited, t_error,
          timing, f_pc, f_result, f_out>>

-----------------------------------------------------------------------------
(* Python values *)

None == [tag |-> "None"]

Str(s) == [tag |-> "str", s |-> s]

\* Python truthiness of an Optional[str]: None and "" are falsy
Truthy(v) == v.tag = "str" /\ Len(v.s) > 0

\* `needle in hay` for str: needle occurs as a contiguous run of hay
Contains(hay, needle) ==
    \E k \in 0..(Len(hay) - Len(needle)) :
        SubSeq(hay, k + 1, k + Len(needle)) = needle

\* what a call that has not returned has returned
NoReturn == [tag |-> "NoReturn"]

PyInt(n) == [tag |-> "int", v |-> n]

PyBool(b) == [tag |-> "bool", v |-> b]

\* a dict with at most one item
PyDict(items) == [tag |-> "dict", items |-> items]

JsonError == [tag |-> "JSONDecodeError"]

JsonDigits == {"0", "1"}

JsonDigitValue(t) == IF t = "0" THEN 0 ELSE 1

JsonWords == {"state", "active", "did"}

IsJsonSpace(t) == t = " "

\* the text without its leading whitespace tokens
RECURSIVE LStrip(_)
LStrip(s) ==
    IF s # <<>> /\ IsJsonSpace(Head(s)) THEN LStrip(Tail(s)) ELSE s

\* the text without its trailing whitespace tokens
RECURSIVE RStrip(_)
RStrip(s) ==
    IF s # <<>> /\ IsJsonSpace(s[Len(s)])
    THEN RStrip(SubSeq(s, 1, Len(s) - 1)) ELSE s

\* a scalar JSON document of one token, JsonError when it is none
JsonScalar(t) ==
    IF t = "null" THEN None
    ELSE IF t = "true" THEN PyBool(TRUE)
    ELSE IF t = "false" THEN PyBool(FALSE)
    ELSE IF t \in JsonDigits THEN PyInt(JsonDigitValue(t))
    ELSE IF t \in JsonWords THEN Str(<<t>>)
    ELSE JsonError

\* json.loads on a token text: surrounding whitespace is skipped; a scalar, {}
\* or a one-item object {key: scalar} decodes; anything else (the empty text
\* included) is a JSONDecodeError.
JsonLoads(s) ==
    LET t == RStrip(LStrip(s)) IN
    IF Len(t) = 1 THEN JsonScalar(t[1])
    ELSE IF t = <<"{", "}">> THEN PyDict(<<>>)
    ELSE IF /\ Len(t) = 5
            /\ t[1] = "{" /\ t[2] \in JsonWords /\ t[3] = ":" /\ t[5] = "}"
            /\ JsonScalar(t[4]) # JsonError
         THEN PyDict(<<t[2], JsonScalar(t[4])>>)
    ELSE JsonError

-----------------------------------------------------------------------------
(* detect_process *)

\* range(10): the number of probes detect_process is willing to send
PollBudget == 10

\* the marker looked for in the swagger document
Marker == <<"Aries", "Cloud", "Agent">>

ClientErrorOutcome == [kind |-> "ClientError"]

Response(status, body) == [kind |-> "response", status |-> status, body |-> body]

\* bodies the endpoint may serve: empty, unrelated, a broken-off marker, the marker
ProbeBodies ==
    { <<>>,
      <<"Not", "Found">>,
      <<"title", "Aries", "Cloud">>,
      <<"title", "Aries", "Cloud", "Agent", "v0">> }

\* outcomes that keep the loop going: a ClientError, or a status other than 200
\* (here with a body that even holds the marker)
FailOutcomes ==
    { ClientErrorOutcome,
      Response(503, <<"title", "Aries", "Cloud", "Agent", "v0">>) }

OkOutcomes == { Response(200, b) : b \in ProbeBodies }

ProbeOutcomes == FailOutcomes \cup OkOutcomes

\* Endpoint scripts of PollBudget answers: n failing answers, then a 200 answer,
\* then one answer repeated for the probes that follow; or failing answers only.
Scripts ==
    UNION { { [k \in 1..PollBudget |->
                  IF k <= n THEN u[k] ELSE IF k = n + 1 THEN p ELSE t]
              : u \in [1..n -> FailOutcomes], p \in OkOutcomes, t \in ProbeOutcomes }
            : n \in 0..(PollBudget - 1) }
    \cup [1..PollBudget -> FailOutcomes]

IsSuccess(o) ==
    /\ o.kind = "response"
    /\ o.status = 200
    /\ Contains(o.body, Marker)

TimedOutMsg == "Timed out waiting for agent process to start"
UnexpectedMsg == "Unexpected response from agent process"

InitDetect ==
    /\ script \in Scripts
    /\ d_pc = "start"
    /\ d_polls = 0
    /\ d_text = None
    /\ d_error = None

\* text = None, entering the for loop
detect_process_enter ==
    /\ d_pc = "start"
    /\ d_pc' = "loop"
    /\ d_text' = None
    /\ UNCHANGED <<script, d_polls, d_error>>
    /\ UNCHANGED <<adminVars, agentVars, webhookVars, terminateVars, timingVars>>

\* an iteration that reads the body of every response, whatever its status
PollTextAnyStatus(o, text) ==
    IF o.kind = "ClientError" THEN None ELSE Str(o.body)

\* the value of `text` after one iteration whose probe had outcome o
PollText(o, text) ==
    IF o.kind = "ClientError" THEN None
    ELSE IF o.status = 200 THEN Str(o.body)
    ELSE text

\* a loop that leaves on any response, whatever its status
PollBreaksAnyStatus(o) == o.kind = "response"

\* does the iteration leave the loop (break)?
PollBreaks(o) == o.kind = "response" /\ o.status = 200

\* one iteration of the loop: sleep, GET, then break / continue
detect_process_poll ==
    /\ d_pc = "loop"
    /\ d_polls < PollBudget
    /\ LET o == script[d_polls + 1] IN
         /\ d_polls' = d_polls + 1
         /\ d_text' = PollText(o, d_text)
         /\ d_pc' = IF PollBreaks(o) \/ d_polls + 1 = PollBudget
                    THEN "check" ELSE "loop"
    /\ UNCHANGED <<script, d_error>>
    /\ UNCHANGED <<adminVars, agentVars, webhookVars, terminateVars, timingVars>>

\* the error raised after the loop, None for a normal return
DetectVerdict(text) ==
    IF ~Truthy(text) THEN Str(<<TimedOutMsg>>)
    ELSE IF ~Contains(text.s, Marker) THEN Str(<<UnexpectedMsg>>)
    ELSE None

\* the two checks after the loop
detect_process_check ==
    /\ d_pc = "check"
    /\ d_error' = DetectVerdict(d_text)
    /\ d_pc' = IF DetectVerdict(d_text) = None THEN "returned" ELSE "raised"
    /\ UNCHANGED <<script, d_polls, d_text>>
    /\ UNCHANGED <<adminVars, agentVars, webhookVars, terminateVars, timingVars>>

NextDetect ==
    \/ detect_process_enter
    \/ detect_process_poll
    \/ detect_process_check

DetectFinished == d_pc \in {"returned", "raised"}

Is200(o) == o.kind = "response" /\ o.status = 200

\* k is the first probe answered with status 200
FirstOkAt(k) == Is200(script[k]) /\ \A j \in 1..(k - 1) : ~Is200(script[j])

\* C1 as stated: whenever some probe k in 1..10 of the endpoint's answers is
\* a 200 whose body holds the marker, detect_process returns without an error.
C1_AsStated ==
    (DetectFinished /\ \E k \in 1..PollBudget : IsSuccess(script[k]))
        => (d_pc = "returned" /\ d_error = None)

\* C1 amended: whenever the first probe answered with status 200 is one of the
\* first 10 and its body holds the marker, detect_process returns without an
\* error, having sent exactly that many probes.
C1_FirstOkWithMarkerSucceeds ==
    \A k \in 1..PollBudget :
        (DetectFinished /\ FirstOkAt(k) /\ IsSuccess(script[k]))
            => (d_pc = "returned" /\ d_error = None /\ d_polls = k)

\* C1 witness: detection succeeded on the last probe of the budget, after nine
\* failures of both kinds.
C1_Witness ==
    /\ d_pc = "returned"
    /\ d_polls = PollBudget
    /\ IsSuccess(script[PollBudget])
    /\ \E j \in 1..(PollBudget - 1) : script[j].kind = "ClientError"
    /\ \E j \in 1..(PollBudget - 1) : script[j].kind = "response"

\* C2 as stated: whenever none of the first 10 answers is a success (200 with
\* the marker), detect_process sends exactly 10 probes and raises the timeout
\* error and no other; it never sends an 11th probe.
C2_AsStated ==
    /\ d_polls <= PollBudget
    /\ (DetectFinished /\ \A k \in 1..PollBudget : ~IsSuccess(script[k]))
          => (d_polls = PollBudget /\ d_pc = "raised"
              /\ d_error = Str(<<TimedOutMsg>>))

\* C2 amended: detect_process never sends an 11th probe; when none of the 10
\* answers has status 200 it sends exactly 10 probes and raises the timeout
\* error; when the first 200 answer is probe k and lacks the marker it stops
\* after k probes and raises the timeout error for an empty body and the
\* unexpected-response error otherwise.
C2_NoOkTimesOutAfterBudget ==
    /\ d_polls <= PollBudget
    /\ (DetectFinished /\ \A k \in 1..PollBudget : ~Is200(script[k]))
          => (d_polls = PollBudget /\ d_pc = "raised"
              /\ d_error = Str(<<TimedOutMsg>>))
    /\ \A k \in 1..PollBudget :
          (DetectFinished /\ FirstOkAt(k) /\ ~IsSuccess(script[k]))
            => /\ d_polls = k
               /\ d_pc = "raised"
               /\ d_error = IF script[k].body = <<>>
                             THEN Str(<<TimedOutMsg>>)
                             ELSE Str(<<UnexpectedMsg>>)

\* C2 witness: ten probes, none answered with 200, some answered 503 with the
\* marker in the body, and the timeout error raised.
C2_Witness ==
    /\ d_pc = "raised"
    /\ d_polls = PollBudget
    /\ d_error = Str(<<TimedOutMsg>>)
    /\ \A k \in 1..PollBudget : ~Is200(script[k])
    /\ \E k \in 1..PollBudget : script[k].kind = "response"

-----------------------------------------------------------------------------
(* admin_request, admin_GET, admin_POST *)

AdminPaths == {"/status", "/status/reset"}

\* json= payloads a caller may pass to admin_POST
AdminData == { None, PyDict(<<"did", PyInt(1)>>) }

AdminStatuses == {199, 200, 204, 299, 300, 404, 500}

AdminBodies ==
    { <<>>,
      <<" ">>,
      <<"null">>,
      <<"0">>,
      <<"{", "state", ":", "active", "}">>,
      <<"{", "state", ":">> }

UnexpectedHttpMsg == "Unexpected HTTP response:"
DecodeErrorMsg == "Error decoding JSON:"

InitAdmin ==
    /\ a_pc = "idle"
    /\ a_call = None
    /\ a_wire = <<>>
    /\ a_resp = None
    /\ a_result = NoReturn
    /\ a_error = None

\* client_session.request(method, admin_url + path, json=data): the call is
\* recorded and its one HTTP request goes out
admin_request(via, method, path, data, text) ==
    /\ a_pc \in {"idle", "returned", "raised"}
    /\ a_pc' = "awaiting"
    /\ a_call' = [via |-> via, method |-> method, path |-> path,
                  data |-> data, text |-> text]
    /\ a_wire' = << [method |-> method, path |-> path, json |-> data] >>
    /\ a_resp' = None
    /\ a_result' = NoReturn
    /\ a_error' = None
    /\ UNCHANGED <<detectVars, agentVars, webhookVars, terminateVars, timingVars>>

admin_GET ==
    \E path \in AdminPaths, text \in BOOLEAN :
        admin_request("admin_GET", "GET", path, None, text)

admin_POST ==
    \E path \in AdminPaths, data \in AdminData, text \in BOOLEAN :
        admin_request("admin_POST", "POST", path, data, text)

\* a status check that lets redirects and client errors through
AdminStatusFatalOnly5xx(status) == status < 200 \/ status > 499

\* resp.status < 200 or resp.status > 299
AdminStatusFatal(status) == status < 200 \/ status > 299

\* an empty-body check that forgets the text flag
AdminReturnsNoneAnyText(resp_text, text) == ~Truthy(resp_text)

\* not resp_text and not text
AdminReturnsNone(resp_text, text) == ~Truthy(resp_text) /\ ~text

\* what admin_request does with the response: the value returned or the
\* exception raised
AdminOutcome(status, body, text) ==
    LET resp_text == Str(body) IN
    IF AdminStatusFatal(status)
    THEN [pc |-> "raised", value |-> NoReturn,
          error |-> Str(<<UnexpectedHttpMsg, status>>)]
    ELSE IF AdminReturnsNone(resp_text, text)
    THEN [pc |-> "returned", value |-> None, error |-> None]
    ELSE IF ~text
    THEN IF JsonLoads(body) = JsonError
         THEN [pc |-> "raised", value |-> NoReturn,
               error |-> Str(<<DecodeErrorMsg>> \o body)]
         ELSE [pc |-> "returned", value |-> JsonLoads(body), error |-> None]
    ELSE [pc |-> "returned", value |-> resp_text, error |-> None]

\* the agent answers; the body of the `async with` runs to its return or raise
admin_request_response ==
    /\ a_pc = "awaiting"
    /\ \E status \in AdminStatuses, body \in AdminBodies :
         LET out == AdminOutcome(status, body, a_call.text) IN
           /\ a_resp' = [status |-> status, body |-> body]
           /\ a_pc' = out.pc
           /\ a_result' = out.value
           /\ a_error' = out.error
    /\ UNCHANGED <<a_call, a_wire>>
    /\ UNCHANGED <<detectVars, agentVars, webhookVars, terminateVars, timingVars>>

NextAdmin ==
    \/ admin_GET
    \/ admin_POST
    \/ admin_request_response

AdminFinished == a_pc \in {"returned", "raised"}

\* C3: a response whose status is below 200 or above 299 makes admin_request
\* (reached through admin_GET or admin_POST, with either text flag) raise an
\* error and return no value, after exactly one HTTP request.
C3_Non2xxIsFatalNotRetried ==
    (AdminFinished /\ (a_resp.status < 200 \/ a_resp.status > 299))
        => /\ Len(a_wire) = 1
           /\ a_pc = "raised"
           /\ a_error = Str(<<UnexpectedHttpMsg, a_resp.status>>)
           /\ a_result = NoReturn

\* C3 witness: admin_POST with text set got a 404 whose body is valid JSON,
\* and raised.
C3_Witness ==
    /\ a_pc = "raised"
    /\ a_call.via = "admin_POST"
    /\ a_call.text
    /\ a_resp.status = 404
    /\ a_resp.body = <<"{", "state", ":", "active", "}">>

\* C4 as stated: a 2xx response with an empty body makes admin_request return
\* None, for GET and POST and for either value of the text flag.
C4_AsStated ==
    (AdminFinished /\ a_resp.status \in 200..299 /\ a_resp.body = <<>>)
        => (a_pc = "returned" /\ a_result = None)

\* C4 amended: a 2xx response with an empty body makes admin_request return
\* None when the text flag is false, and the empty string when it is true.
C4_EmptyBodyNoneUnlessText ==
    (AdminFinished /\ a_resp.status \in 200..299 /\ a_resp.body = <<>>)
        => /\ a_pc = "returned"
           /\ a_error = None
           /\ a_result = IF a_call.text THEN Str(<<>>) ELSE None

\* C4 witness: admin_POST without the text flag got a 204 with an empty body
\* and returned None.
C4_Witness ==
    /\ a_pc = "returned"
    /\ a_call.via = "admin_POST"
    /\ ~a_call.text
    /\ a_resp.status = 204
    /\ a_resp.body = <<>>
    /\ a_result = None

-----------------------------------------------------------------------------
(* The agent object: __init__, listen_webhooks, start_process *)

\* ports listen_webhooks may be given
WebhookPorts == {8022, 8032}

\* topics for which a subclass of DemoAgent may define handle_<topic>
SubclassTopics == {"connections", "basicmessages"}

\* the state __init__ leaves: no process, no webhook site, an open session
InitAgent ==
    /\ webhook_port = None
    /\ webhook_site = "None"
    /\ client_session = "open"
    /\ proc = None
    /\ handlers \in SUBSET SubclassTopics
    /\ log = <<>>

\* the web application is set up and its TCP site started
listen_webhooks ==
    /\ webhook_site = "None"
    /\ t_pc = "idle"
    /\ \E port \in WebhookPorts : webhook_port' = PyInt(port)
    /\ webhook_site' = "started"
    /\ UNCHANGED <<client_session, proc, handlers, log>>
    /\ UNCHANGED <<detectVars, adminVars, webhookVars, terminateVars, timingVars>>

\* self.proc = Popen(...), without waiting for readiness
start_process ==
    /\ proc = None
    /\ t_pc = "idle"
    /\ proc' = [state |-> "running", returncode |-> None]
    /\ UNCHANGED <<webhook_port, webhook_site, client_session, handlers, log>>
    /\ UNCHANGED <<detectVars, adminVars, webhookVars, terminateVars, timingVars>>

\* exit codes of a process that ends by itself
OwnExitCodes == {0, 1}

\* the exit code of a process ended by SIGTERM
SigtermExitCode == -15

\* the spawned process ends by itself
proc_exit ==
    /\ proc # None
    /\ proc.state = "running"
    /\ \E rc \in OwnExitCodes :
         proc' = [state |-> "exited", returncode |-> PyInt(rc)]
    /\ UNCHANGED <<webhook_port, webhook_site, client_session, handlers, log>>
    /\ UNCHANGED <<detectVars, adminVars, webhookVars, terminateVars, timingVars>>

\* handle_output(*output, source=None) as called by self.log: one line to log_msg
LogLine(msg) == [source |-> None, msg |-> msg]

-----------------------------------------------------------------------------
(* The webhook server: _receive_webhook, handle_webhook *)

\* webhook requests the model lets the agent process send
MaxRequests == 2

\* topics a request may name: two a subclass may handle, "output" (DemoAgent
\* itself has handle_output), "webhook" (DemoAgent itself has handle_webhook),
\* and "ping", for which nothing defines a handler
Topics == SubclassTopics \cup {"output", "webhook", "ping"}

\* request bodies: two JSON documents and a broken-off one
WebhookBodies ==
    { <<"{", "state", ":", "active", "}">>,
      <<"null">>,
      <<"{", "state", ":">> }

NoRequest == [pc |-> "none"]

InitWebhook ==
    /\ w_req = [r \in 1..MaxRequests |-> NoRequest]
    /\ w_count = 0

\* the agent process POSTs /webhooks/topic/{topic}/ ; the route matches
webhook_post ==
    /\ webhook_site = "started"
    /\ w_count < MaxRequests
    /\ \E topic \in Topics, body \in WebhookBodies :
         w_req' = [w_req EXCEPT ![w_count + 1] =
                     [pc |-> "json", topic |-> topic, body |-> body,
                      payload |-> NoReturn, calls |-> <<>>,
                      response |-> None, raised |-> None]]
    /\ w_count' = w_count + 1
    /\ UNCHANGED <<detectVars, adminVars, agentVars, terminateVars, timingVars>>

\* a handler that goes on to dispatch whatever request.json() gave
AfterJsonAlwaysHandle(payload) == "handle"

\* where _receive_webhook goes after `payload = await request.json()`
AfterJson(payload) == IF payload = JsonError THEN "failed" ELSE "handle"

\* topic = match_info["topic"]; payload = await request.json()
receive_webhook_json(r) ==
    /\ w_req[r].pc = "json"
    /\ LET payload == JsonLoads(w_req[r].body) IN
         w_req' = [w_req EXCEPT
                     ![r].pc = AfterJson(payload),
                     ![r].payload = payload,
                     ![r].raised = IF AfterJson(payload) = "failed"
                                   THEN Str(<<"JSONDecodeError">>) ELSE None]
    /\ UNCHANGED w_count
    /\ UNCHANGED <<detectVars, adminVars, agentVars, terminateVars, timingVars>>

\* getattr(self, f"handle_{topic}", None) is truthy: DemoAgent defines
\* handle_output and handle_webhook, a subclass the topics in `handlers`
HasHandler(topic) == topic \in handlers \cup {"output", "webhook"}

\* a dispatch that looks the method up under a name no handler has
DispatchTargetWrongName(topic) == <<>>

\* a dispatch without the guard against the topic "webhook"
DispatchTargetUnguarded(topic) ==
    IF HasHandler(topic) THEN <<topic>> ELSE <<>>

\* the method handle_webhook awaits for a topic: <<topic>>, or <<>> for none
DispatchTarget(topic) ==
    IF topic # "webhook" /\ HasHandler(topic) THEN <<topic>> ELSE <<>>

\* one invocation of a method of the agent on behalf of a request
Call(method, args, via, state) ==
    [method |-> method, args |-> args, via |-> via, state |-> state]

\* await self.handle_webhook(topic, payload), up to the point where the
\* per-topic method has been called: nothing to call leads on to the response;
\* handle_output is a plain function, it logs the payload and returns None,
\* and awaiting None raises TypeError; a subclass coroutine starts running.
handle_webhook(r) ==
    /\ w_req[r].pc = "handle"
    /\ LET topic == w_req[r].topic
           payload == w_req[r].payload
           entry == Call("handle_webhook", <<Str(<<topic>>), payload>>,
                         "_receive_webhook", "returned")
           target == DispatchTarget(topic)
       IN
         IF target = <<>>
         THEN /\ w_req' = [w_req EXCEPT ![r].pc = "respond",
                                        ![r].calls = <<entry>>]
              /\ UNCHANGED log
         ELSE IF target[1] = "webhook"
         THEN \* handle_webhook awaits itself with one argument: TypeError
              /\ w_req' = [w_req EXCEPT
                     ![r].pc = "failed",
                     ![r].calls = <<entry,
                         Call("handle_webhook", <<payload>>, "dispatch", "raised")>>,
                     ![r].raised = Str(<<"TypeError">>)]
              /\ UNCHANGED log
         ELSE IF target[1] = "output"
         THEN /\ w_req' = [w_req EXCEPT
                     ![r].pc = "failed",
                     ![r].calls = <<entry,
                         Call("handle_output", <<payload>>, "dispatch", "returned")>>,
                     ![r].raised = Str(<<"TypeError">>)]
              /\ log' = Append(log, LogLine(<<payload>>))
         ELSE /\ w_req' = [w_req EXCEPT
                     ![r].pc = "in_handler",
                     ![r].calls = <<entry,
                         Call("handle_" \o target[1], <<payload>>, "dispatch",
                              "running")>>]
              /\ UNCHANGED log
    /\ UNCHANGED <<webhook_port, webhook_site, client_session, proc, handlers>>
    /\ UNCHANGED w_count
    /\ UNCHANGED <<detectVars, adminVars, terminateVars, timingVars>>

\* the subclass coroutine ends: it returns, or it raises
handler_done(r) ==
    /\ w_req[r].pc = "in_handler"
    /\ \E ok \in BOOLEAN :
         w_req' = [w_req EXCEPT
                     ![r].pc = IF ok THEN "respond" ELSE "failed",
                     ![r].calls[2].state = IF ok THEN "returned" ELSE "raised",
                     ![r].raised = IF ok THEN None ELSE Str(<<"Exception">>)]
    /\ UNCHANGED w_count
    /\ UNCHANGED <<detectVars, adminVars, agentVars, terminateVars, timingVars>>

\* return web.Response(text="")
receive_webhook_respond(r) ==
    /\ w_req[r].pc = "respond"
    /\ w_req' = [w_req EXCEPT ![r].pc = "done",
                               ![r].response = [status |-> 200, text |-> <<>>]]
    /\ UNCHANGED w_count
    /\ UNCHANGED <<detectVars, adminVars, agentVars, terminateVars, timingVars>>

NextWebhook ==
    \/ listen_webhooks
    \/ webhook_post
    \/ \E r \in 1..MaxRequests : receive_webhook_json(r)
    \/ \E r \in 1..MaxRequests : handle_webhook(r)
    \/ \E r \in 1..MaxRequests : handler_done(r)
    \/ \E r \in 1..MaxRequests : receive_webhook_respond(r)

OkResponse == [status |-> 200, text |-> <<>>]

WebhookFinished(r) == w_req[r].pc \in {"done", "failed"}

\* the request has been handed to handle_webhook and the method it names called
WebhookDispatched(r) ==
    w_req[r].pc \in {"in_handler", "respond", "done", "failed"}
        /\ w_req[r].payload # JsonError

\* the invocations of `method` made for request r
CallsOf(r, method) ==
    { k \in 1..Len(w_req[r].calls) : w_req[r].calls[k].method = method }

\* C5: for a POST whose body is JSON and whose topic has a handle_<topic>
\* method on the agent, that method is invoked exactly once, its last argument
\* being the parsed body; no method for another topic is invoked; nothing is
\* invoked before the body is parsed; and the invocation is over before the
\* response exists.
C5_DispatchExactlyOnce ==
    \A r \in 1..MaxRequests :
        (w_req[r].pc # "none"
            /\ JsonLoads(w_req[r].body) # JsonError
            /\ HasHandler(w_req[r].topic))
        => LET R == w_req[r]
               mine == "handle_" \o R.topic
           IN /\ ~WebhookDispatched(r) => R.calls = <<>>
              /\ WebhookDispatched(r) =>
                    /\ Cardinality(CallsOf(r, mine)) = 1
                    /\ \A k \in CallsOf(r, mine) :
                          R.calls[k].args[Len(R.calls[k].args)]
                              = JsonLoads(R.body)
                    /\ \A k \in 1..Len(R.calls) :
                          R.calls[k].method \in {"handle_webhook", mine}
              /\ R.response # None =>
                    \A k \in 1..Len(R.calls) : R.calls[k].state # "running"

\* C5 witness: a POST to topic connections with body {"state": "active"} was
\* answered after handle_connections ran once, while another request to the
\* same topic was still inside its handler.
C5_Witness ==
    /\ "connections" \in handlers
    /\ \E r, q \in 1..MaxRequests :
         /\ w_req[r].pc = "done"
         /\ w_req[r].topic = "connections"
         /\ w_req[r].body = <<"{", "state", ":", "active", "}">>
         /\ Cardinality(CallsOf(r, "handle_connections")) = 1
         /\ w_req[r].response = OkResponse
         /\ w_req[q].pc = "in_handler"
         /\ w_req[q].topic = "connections"

WebhookRunsClean(r) ==
    /\ JsonLoads(w_req[r].body) # JsonError
    /\ \/ DispatchTarget(w_req[r].topic) = <<>>
       \/ /\ w_req[r].topic \in handlers
          /\ Len(w_req[r].calls) = 2
          /\ w_req[r].calls[2].state = "returned"

NoDispatchTopic(topic) == topic = "webhook" \/ ~HasHandler(topic)

\* nothing was invoked through the dispatch, handle_webhook was entered at
\* most once
NoHandlerInvoked(r) ==
    /\ \A k \in 1..Len(w_req[r].calls) : w_req[r].calls[k].via # "dispatch"
    /\ Cardinality(CallsOf(r, "handle_webhook")) <= 1

-----------------------------------------------------------------------------
(* terminate, _terminate *)

\* calls of terminate the model lets the caller make (a further call is made
\* only after one that raised)
MaxTerminateCalls == 2

NotTerminatedMsg == "Process did not terminate in time"
ExitedMsg == "Exited with return code"

\* terminate not called
InitTerminate ==
    /\ t_pc = "idle"
    /\ t_calls = 0
    /\ t_alive = None
    /\ t_signals = 0
    /\ t_waited = "no"
    /\ t_error = None

\* terminate is called: `if self.proc:` sends _terminate to the executor
terminate ==
    /\ \/ t_pc = "idle"
       \/ t_pc = "raised" /\ t_calls < MaxTerminateCalls
    /\ t_calls' = t_calls + 1
    /\ t_alive' = None
    /\ t_signals' = 0
    /\ t_waited' = "no"
    /\ t_error' = None
    /\ t_pc' = IF proc # None THEN "executor" ELSE "close"
    /\ UNCHANGED <<detectVars, adminVars, agentVars, webhookVars, timingVars>>

\* _terminate: `if self.proc and self.proc.poll() is None`
terminate_poll ==
    /\ t_pc = "executor"
    /\ LET alive == proc # None /\ proc.state = "running" IN
         /\ t_alive' = PyBool(alive)
         /\ t_pc' = IF alive THEN "signal" ELSE "close"
    /\ UNCHANGED <<t_calls, t_signals, t_waited, t_error>>
    /\ UNCHANGED <<detectVars, adminVars, agentVars, webhookVars, timingVars>>

\* a wait whose timeout is logged and then swallowed
AfterWaitSwallowsTimeout(exited) ==
    [pc |-> "close", error |-> None,
     line |-> IF exited THEN <<ExitedMsg>> ELSE <<NotTerminatedMsg>>]

\* what follows self.proc.wait(timeout=0.5): the line logged, and the return
\* of _terminate or the exception it raises
AfterWait(exited) ==
    IF exited
    THEN [pc |-> "close", error |-> None, line |-> <<ExitedMsg>>]
    ELSE [pc |-> "raised", error |-> Str(<<NotTerminatedMsg>>),
          line |-> <<NotTerminatedMsg>>]

\* _terminate: self.proc.terminate(), then self.proc.wait(timeout=0.5). A
\* process that ended since the poll is found exited at once; a running one
\* ends within the timeout (of the signal, or with a code of its own) or not.
terminate_signal_wait ==
    /\ t_pc = "signal"
    /\ t_signals' = t_signals + 1
    /\ \E exited \in BOOLEAN, rc \in OwnExitCodes \cup {SigtermExitCode} :
         /\ proc.state = "exited" => (exited /\ PyInt(rc) = proc.returncode)
         /\ proc' = IF exited
                    THEN [state |-> "exited", returncode |-> PyInt(rc)]
                    ELSE proc
         /\ t_waited' = IF exited THEN "exited" ELSE "timeout"
         /\ LET out == AfterWait(exited) IN
              /\ t_pc' = out.pc
              /\ t_error' = out.error
              /\ log' = Append(log,
                     LogLine(IF exited THEN out.line \o <<PyInt(rc)>> ELSE out.line))
    /\ UNCHANGED <<t_calls, t_alive>>
    /\ UNCHANGED <<webhook_port, webhook_site, client_session, handlers>>
    /\ UNCHANGED <<detectVars, adminVars, webhookVars, timingVars>>

\* a terminate that closes the session and forgets the webhook site
terminate_close_session_only ==
    /\ t_pc = "close"
    /\ client_session' = "closed"
    /\ t_pc' = "returned"
    /\ UNCHANGED <<t_calls, t_alive, t_signals, t_waited, t_error>>
    /\ UNCHANGED <<webhook_port, webhook_site, proc, handlers, log>>
    /\ UNCHANGED <<detectVars, adminVars, webhookVars, timingVars>>

\* await self.client_session.close(), then `if self.webhook_site:`
terminate_close_session ==
    /\ t_pc = "close"
    /\ client_session' = "closed"
    /\ t_pc' = IF webhook_site # "None" THEN "stop" ELSE "returned"
    /\ UNCHANGED <<t_calls, t_alive, t_signals, t_waited, t_error>>
    /\ UNCHANGED <<webhook_port, webhook_site, proc, handlers, log>>
    /\ UNCHANGED <<detectVars, adminVars, webhookVars, timingVars>>

\* await self.webhook_site.stop()
terminate_stop_site ==
    /\ t_pc = "stop"
    /\ webhook_site' = "stopped"
    /\ t_pc' = "returned"
    /\ UNCHANGED <<t_calls, t_alive, t_signals, t_waited, t_error>>
    /\ UNCHANGED <<webhook_port, client_session, proc, handlers, log>>
    /\ UNCHANGED <<detectVars, adminVars, webhookVars, timingVars>>

NextTerminate ==
    \/ listen_webhooks
    \/ start_process
    \/ proc_exit
    \/ terminate
    \/ terminate_poll
    \/ terminate_signal_wait
    \/ terminate_close_session
    \/ terminate_stop_site

TerminateFinished == t_pc \in {"returned", "raised"}

\* _terminate is over: its poll found no running process, or its wait ended
TerminateProcDone == t_pc \in {"close", "stop", "returned", "raised"}

\* C7: a call of terminate sends the process at most one terminate signal.
\* When _terminate finds the process still running it sends exactly one and
\* waits: if the process exits within the timeout no termination error is
\* raised, and if it does not, terminate raises "Process did not terminate in
\* time". When no process was started or the process had already exited, no
\* signal is sent, nothing is waited for and no termination error is raised.
C7_TerminateEscalatesOnTimeout ==
    /\ t_signals <= 1
    /\ (TerminateProcDone /\ t_alive = PyBool(TRUE)) =>
          /\ t_signals = 1
          /\ t_waited \in {"exited", "timeout"}
          /\ t_waited = "exited" => (t_pc # "raised" /\ t_error = None)
          /\ t_waited = "timeout" =>
                (t_pc = "raised" /\ t_error = Str(<<NotTerminatedMsg>>))
    /\ (TerminateProcDone /\ t_alive # PyBool(TRUE)) =>
          /\ t_signals = 0
          /\ t_waited = "no"
          /\ t_pc # "raised"
          /\ t_error = None
    /\ (TerminateFinished /\ proc = None) => t_alive = None
    /\ t_pc = "raised" => t_waited = "timeout"

\* C7 witness: a second call of terminate, after one that timed out, signalled
\* the process once more and saw it exit in time.
C7_Witness ==
    /\ t_pc = "returned"
    /\ t_calls = 2
    /\ t_signals = 1
    /\ t_waited = "exited"
    /\ proc.returncode = PyInt(SigtermExitCode)
    /\ Len(log) = 2

-----------------------------------------------------------------------------
(* format_timing *)

\* metrics a timing record of the model may hold
MaxMetrics == 3

\* name[:35] and the {:35} column
NameWidth == 35

\* the {:>12} / {:12d} / {:12.3f} columns: count and total
WideWidth == 12

\* the {:>10} / {:10.3f} columns: avg, min and max
StatWidth == 10

\* "=" * 96
RuleWidth == 96

\* the text of n copies of the character c
Rep(c, n) == [k \in 1..n |-> c]

\* two short metric names, and two of 36 characters that agree on the first 35
MetricNames ==
    { <<"a">>,
      <<"b">>,
      Rep("x", NameWidth) \o <<"1">>,
      Rep("x", NameWidth) \o <<"2">> }

\* statistics of one metric; the times are in milliseconds, so that the three
\* decimals of {:.3f} show them exactly
MetricStats ==
    { [count |-> 1, total |-> 2000, avg |-> 2000, min |-> 2000, max |-> 2000],
      [count |-> 2, total |-> 2000, avg |-> 1000, min |-> 500, max |-> 1500],
      [count |-> 4, total |-> 1000, avg |-> 250, min |-> 100, max |-> 400],
      [count |-> 1, total |-> 0, avg |-> 0, min |-> 0, max |-> 0] }

\* sequences of n distinct metric names
NameOrders(n) ==
    { o \in [1..n -> MetricNames] :
        \A i, j \in 1..n : i # j => o[i] # o[j] }

\* a dict as the sequence of its <<key, value>> items in insertion order
DictOf(names, vals) == [k \in 1..Len(names) |-> <<names[k], vals[k]>>]

\* dict[key]
Lookup(dict, key) ==
    LET k == CHOOSE k \in 1..Len(dict) : dict[k][1] = key IN dict[k][2]

\* the timing record of the metrics `names` with statistics `st`
TimingOf(names, st) ==
    [count |-> DictOf(names, [k \in 1..Len(names) |-> st[k].count]),
     total |-> DictOf(names, [k \in 1..Len(names) |-> st[k].total]),
     avg   |-> DictOf(names, [k \in 1..Len(names) |-> st[k].avg]),
     min   |-> DictOf(names, [k \in 1..Len(names) |-> st[k].min]),
     max   |-> DictOf(names, [k \in 1..Len(names) |-> st[k].max])]

InitTiming ==
    /\ \E n \in 0..MaxMetrics :
         \E names \in NameOrders(n), st \in [1..n -> MetricStats] :
             timing = TimingOf(names, st)
    /\ f_pc = "created"
    /\ f_result = <<>>
    /\ f_out = <<>>

\* name[:width]
Truncate(name, width) ==
    SubSeq(name, 1, IF Len(name) < width THEN Len(name) ELSE width)

\* the tuple appended to `result` for the k-th item of timing["count"]
TimingRow(t, k) ==
    LET name == t.count[k][1] IN
    << Truncate(name, NameWidth), t.count[k][2], Lookup(t.total, name),
       Lookup(t.avg, name), Lookup(t.min, name), Lookup(t.max, name) >>

\* `result` after the for loop: one tuple per item, in dict order
TimingRows(t) == [k \in 1..Len(t.count) |-> TimingRow(t, k)]

\* rows with `row` put behind every row whose total is at least its own
InsertByTotalDesc(rows, row) ==
    LET before == { k \in 1..Len(rows) : rows[k][3] >= row[3] }
        at == IF before = {} THEN 0
              ELSE CHOOSE k \in before : \A j \in before : j <= k
    IN SubSeq(rows, 1, at) \o <<row>> \o SubSeq(rows, at + 1, Len(rows))

\* a sort that forgets reverse=True: smallest total first
RECURSIVE SortByTotalAsc(_)
SortByTotalAsc(rows) ==
    IF rows = <<>> THEN <<>>
    ELSE LET rest == SortByTotalAsc(Tail(rows))
             row == Head(rows)
             before == { k \in 1..Len(rest) : rest[k][3] < row[3] }
             at == IF before = {} THEN 0
                   ELSE CHOOSE k \in before : \A j \in before : j <= k
         IN SubSeq(rest, 1, at) \o <<row>> \o SubSeq(rest, at + 1, Len(rest))

\* result.sort(key=lambda row: row[2], reverse=True): by total, largest
\* first, rows of equal total keeping their order
RECURSIVE SortByTotalDesc(_)
SortByTotalDesc(rows) ==
    IF rows = <<>> THEN <<>>
    ELSE InsertByTotalDesc(SortByTotalDesc(SubSeq(rows, 1, Len(rows) - 1)),
                           rows[Len(rows)])

\* {:width} of a text: padded with spaces on the right, never cut
PadRight(text, width) ==
    IF Len(text) < width THEN text \o Rep(" ", width - Len(text)) ELSE text

\* a right-aligned column: what it shows, how, and its width
Cell(value, conv, width) == [value |-> value, conv |-> conv, width |-> width]

\* the header line
HeaderLine ==
    [name |-> PadRight(<<>>, NameWidth),
     cols |-> << Cell("count", "s", WideWidth), Cell("total", "s", WideWidth),
                 Cell("avg", "s", StatWidth), Cell("min", "s", StatWidth),
                 Cell("max", "s", StatWidth) >>]

\* the line of a row of `result`
RowLine(row) ==
    [name |-> PadRight(row[1], NameWidth),
     cols |-> << Cell(row[2], "d", WideWidth), Cell(row[3], ".3f", WideWidth),
                 Cell(row[4], ".3f", StatWidth), Cell(row[5], ".3f", StatWidth),
                 Cell(row[6], ".3f", StatWidth) >>]

RuleLine == [text |-> Rep("=", RuleWidth)]

EmptyLine == [text |-> <<>>]

\* the first next(): the rows are collected and sorted, the header is yielded
format_timing ==
    /\ f_pc = "created"
    /\ f_result' = SortByTotalDesc(TimingRows(timing))
    /\ f_out' = <<HeaderLine>>
    /\ f_pc' = "rule"
    /\ UNCHANGED timing
    /\ UNCHANGED <<detectVars, adminVars, agentVars, webhookVars, terminateVars>>

\* yield "=" * 96
format_timing_rule ==
    /\ f_pc = "rule"
    /\ f_out' = Append(f_out, RuleLine)
    /\ f_pc' = "rows"
    /\ UNCHANGED <<timing, f_result>>
    /\ UNCHANGED <<detectVars, adminVars, agentVars, webhookVars, terminateVars>>

\* yield from (...): the next row of `result`
format_timing_row ==
    /\ f_pc = "rows"
    /\ Len(f_out) - 2 < Len(f_result)
    /\ f_out' = Append(f_out, RowLine(f_result[Len(f_out) - 1]))
    /\ UNCHANGED <<timing, f_result, f_pc>>
    /\ UNCHANGED <<detectVars, adminVars, agentVars, webhookVars, terminateVars>>

\* yield "" once the rows are through
format_timing_end ==
    /\ f_pc = "rows"
    /\ Len(f_out) - 2 = Len(f_result)
    /\ f_out' = Append(f_out, EmptyLine)
    /\ f_pc' = "done"
    /\ UNCHANGED <<timing, f_result>>
    /\ UNCHANGED <<detectVars, adminVars, agentVars, webhookVars, terminateVars>>

NextTiming ==
    \/ format_timing
    \/ format_timing_rule
    \/ format_timing_row
    \/ format_timing_end

\* the one-to-one assignments of n rows to n metrics
RowAssignments(n) ==
    { p \in [1..n -> 1..n] : \A i, j \in 1..n : i # j => p[i] # p[j] }

\* the total a row line shows
ShownTotal(line) == line.cols[2].value

\* C8: format_timing yields the header line, the rule, then exactly one row
\* per metric of the record, each row's total at least the total of the row
\* after it, then one empty line.
C8_RowsSortedByTotalDesc ==
    f_pc = "done" =>
        LET n == Len(timing.count) IN
        /\ Len(f_out) = n + 3
        /\ f_out[1] = HeaderLine
        /\ f_out[2] = RuleLine
        /\ f_out[n + 3] = EmptyLine
        /\ \E p \in RowAssignments(n) :
              \A i \in 1..n : f_out[2 + i] = RowLine(TimingRow(timing, p[i]))
        /\ \A i \in 1..(n - 1) :
              ShownTotal(f_out[2 + i]) >= ShownTotal(f_out[3 + i])

\* C8 witness: a report of three metrics given in ascending order of total,
\* two of them with names that agree on their first 35 characters.
C8_Witness ==
    /\ f_pc = "done"
    /\ Len(timing.count) = 3
    /\ timing.total[1][2] < timing.total[2][2]
    /\ timing.total[2][2] < timing.total[3][2]
    /\ Len(timing.count[1][1]) > NameWidth
    /\ Len(timing.count[3][1]) > NameWidth
    /\ f_out[3].name = f_out[5].name

-----------------------------------------------------------------------------
(* The specifications: one per part of the agent, the other parts at rest *)

\* detect_process not called
IdleDetect ==
    /\ script = [k \in 1..PollBudget |-> ClientErrorOutcome]
    /\ d_pc = "start"
    /\ d_polls = 0
    /\ d_text = None
    /\ d_error = None

\* an agent without subclass handlers
IdleAgent ==
    /\ webhook_port = None
    /\ webhook_site = "None"
    /\ client_session = "open"
    /\ proc = None
    /\ handlers = {}
    /\ log = <<>>

\* format_timing not called
IdleTiming ==
    /\ timing = TimingOf(<<>>, <<>>)
    /\ f_pc = "created"
    /\ f_result = <<>>
    /\ f_out = <<>>

InitSpecDetect ==
    InitDetect /\ InitAdmin /\ IdleAgent /\ InitWebhook /\ InitTerminate
        /\ IdleTiming

SpecDetect == InitSpecDetect /\ [][NextDetect]_vars

InitSpecAdmin ==
    IdleDetect /\ InitAdmin /\ IdleAgent /\ InitWebhook /\ InitTerminate
        /\ IdleTiming

SpecAdmin == InitSpecAdmin /\ [][NextAdmin]_vars

InitSpecWebhook ==
    IdleDetect /\ InitAdmin /\ InitAgent /\ InitWebhook /\ InitTerminate
        /\ IdleTiming

SpecWebhook == InitSpecWebhook /\ [][NextWebhook]_vars

InitSpecTerminate ==
    IdleDetect /\ InitAdmin /\ IdleAgent /\ InitWebhook /\ InitTerminate
        /\ IdleTiming

SpecTerminate == InitSpecTerminate /\ [][NextTerminate]_vars

InitSpecTiming ==
    IdleDetect /\ InitAdmin /\ IdleAgent /\ InitWebhook /\ InitTerminate
        /\ InitTiming

SpecTiming == InitSpecTiming /\ [][NextTiming]_vars

=============================================================================
